---- MODULE Spec2Model ----
(***************************************************************************)
(* 1password-node (src/src/index.ts): a typed facade over the `op` command *)
(* line tool.  Every query forks one subprocess (forkBin), exec gates the  *)
(* session, builds the argument vector and classifies the captured text,   *)
(* the public operations are wrapped in memoizee's memoize, and trim /     *)
(* mapper normalise raw item records.                                      *)
(*                                                                         *)
(* Text is modelled as a sequence of tokens: each token stands for one     *)
(* literal piece of text the code looks for (or looks past), so that       *)
(* startsWith, split, includes and trim are computed, not assumed.         *)
(***************************************************************************)
EXTENDS Integers, Sequences, FiniteSets, TLC

\* ------------------------------------------------------------------ bounds

\* Longest raw subprocess output (in tokens) the classifier is driven with.
MaxRawLen == 4

\* Public calls made by the caller in one run of the concurrent model.
MaxCalls == 2

\* Last instant of the clock.
MaxTime == 2

\* Most detail fields of an item the mapper is driven with.
MaxFields == 2

\* ------------------------------------------------------------------ text

SENT == "[bin-error]"
SEP  == "---"
ERR  == "(ERROR)"
NSI  == "You are not currently signed in."
A401 == "401: Authentication required"
SP   == " "
MSG  == "Item 123 not found"
JSON == "{json}"

\* The pieces of text a subprocess can write.
Tokens == {SENT, SEP, ERR, NSI, A401, SP, MSG, JSON}

\* String.prototype.trim: surrounding whitespace removed.
RECURSIVE TrimLeft(_)
TrimLeft(s) ==
    IF s # <<>> /\ Head(s) = SP THEN TrimLeft(Tail(s)) ELSE s

RECURSIVE TrimRight(_)
TrimRight(s) ==
    IF s # <<>> /\ s[Len(s)] = SP THEN TrimRight(SubSeq(s, 1, Len(s) - 1)) ELSE s

Trim(s) == TrimRight(TrimLeft(s))

\* String.prototype.startsWith
StartsWith(s, tok) == s # <<>> /\ Head(s) = tok

\* String.prototype.includes
Includes(s, tok) == \E i \in 1..Len(s) : s[i] = tok

\* String.prototype.split(sep): the segments between the occurrences of sep.
RECURSIVE Split(_, _)
Split(s, sep) ==
    IF ~Includes(s, sep) THEN <<s>>
    ELSE LET i == CHOOSE k \in 1..Len(s) :
                     s[k] = sep /\ \A j \in 1..(k - 1) : s[j] # sep
         IN  <<SubSeq(s, 1, i - 1)>> \o Split(SubSeq(s, i + 1, Len(s)), sep)

\* Mutant: JSON.parse accepts any text.
JSONParsesAnything(s) == TRUE

\* JSON.parse on the text: the single chunk JSON is a serialised value
\* (surrounding whitespace is allowed), anything else is a syntax error.
JSONParses(s) == Trim(s) = <<JSON>>

\* ------------------------------------------------------------------ errors

SessionInvalid == [kind |-> "SessionError", msg |-> <<"Session invalid">>]
TypeErrorV == [kind |-> "TypeError", msg |-> <<>>]
SpawnErrorV == [kind |-> "SpawnError", msg |-> <<>>]
NoError == [kind |-> "none", msg |-> <<>>]

\* ------------------------------------------------------------------ engine

\* forkBin's close handler: the buffered chunks, concatenated and trimmed.
ForkBinResult(buffers) == Trim(buffers)

\* Mutant: only the 401 message is tested for.
IsSessionMessage401Only(error) == Includes(error, A401)

\* The truthiness of the condition of exec's inner `if`:
\*   error.includes('You are not currently signed in.') || '401: Authentication required'
\* whose right operand is a non-empty string literal, hence truthy.
IsSessionMessage(error) == Includes(error, NSI) \/ A401 # ""

\* exec, after forkBin has resolved with `result`: an outcome
\*   [kind |-> "ok", text |-> returned raw text, parsed |-> JSON.parse was used]
\* or [kind |-> an error kind, msg |-> its message].
Classify(result, raw) ==
    IF StartsWith(result, SENT)
    THEN LET a == Split(result, SEP)
         IN IF Len(a) < 2 THEN [kind |-> "TypeError", msg |-> <<>>, text |-> <<>>, parsed |-> FALSE]
            ELSE LET b == Split(a[2], ERR)
                 IN IF Len(b) < 2
                    THEN [kind |-> "TypeError", msg |-> <<>>, text |-> <<>>, parsed |-> FALSE]
                    ELSE LET error == Trim(b[2])
                         IN IF IsSessionMessage(error)
                            THEN [kind |-> "SessionError", msg |-> <<"Session invalid">>,
                                  text |-> <<>>, parsed |-> FALSE]
                            ELSE [kind |-> "QueryError", msg |-> error,
                                  text |-> <<>>, parsed |-> FALSE]
    ELSE IF raw THEN [kind |-> "ok", msg |-> <<>>, text |-> result, parsed |-> FALSE]
    ELSE IF JSONParses(result)
         THEN [kind |-> "ok", msg |-> <<>>, text |-> result, parsed |-> TRUE]
         ELSE [kind |-> "SyntaxError", msg |-> <<>>, text |-> <<>>, parsed |-> FALSE]

\* ------------------------------------------------------------------ sessions

\* A Session is an immutable value { token, expiresAt }; `ref` is the identity of
\* the JavaScript object (memoizee compares object arguments by identity).
S1 == [ref |-> "s1", token |-> "tokA", expiresAt |-> 1]
S2 == [ref |-> "s2", token |-> "tokB", expiresAt |-> 2]
Sessions == {S1, S2}

\* exec called without a session (options.session undefined).
NoSession == [ref |-> "none", token |-> "", expiresAt |-> 0]

\* The minutes generateTokenExpirationDate adds to the current date.
LeaseMinutes == 29

\* generateTokenExpirationDate, with new Date() = t (in minutes).
generateTokenExpirationDate(t) == t + LeaseMinutes

\* The credentials a caller signs in with.
Creds == [domain |-> "acme", email |-> "a@b", secretKey |-> "A3-KEY", masterPassword |-> "pw"]

\* Mutant: the boundary instant counts as valid.
isValidSessionInclusive(session, t) == session.expiresAt >= t

\* isValidSession, with Date.now() = t.
isValidSession(session, t) == session.expiresAt > t

\* ------------------------------------------------------------------ data

Undefined == [uuid |-> "undefined", name |-> "undefined"]

LoginTemplate == [uuid |-> "001", name |-> "Login"]
NoteTemplate  == [uuid |-> "003", name |-> "Secure Note"]

\* The options objects a caller passes to getItems; `oid` is the object's
\* identity ("default": the argument is omitted), query "" is no query.
O0 == [oid |-> "default", vault |-> Undefined, template |-> Undefined, query |-> ""]
O1 == [oid |-> "o1", vault |-> Undefined, template |-> LoginTemplate, query |-> ""]
O2 == [oid |-> "o2", vault |-> Undefined, template |-> Undefined, query |-> "q"]
ItemsOptions == {O0, O1, O2}

\* Options with a vault scope.
O3 == [oid |-> "o3", vault |-> [uuid |-> "v1", name |-> "Private"], template |-> Undefined,
       query |-> ""]

\* What the op tool answers (its JSON payloads, by command).
AccountPayload ==
    [uuid |-> "acc", name |-> "Acme", baseAvatarURL |-> "https://a/", avatar |-> "a.png",
     createdAt |-> 0]
UsersPayload ==
    << [uuid |-> "u1", firstName |-> "A", lastName |-> "B", email |-> "a@b", avatar |-> "",
        language |-> "en", createdAt |-> 0, updatedAt |-> 0, lastAuthAt |-> 0] >>
VaultPayload(id) ==
    [uuid |-> id, name |-> "Private", desc |-> "d",
     avatar |-> IF id = "v1" THEN "" ELSE "v.png"]
TemplatesPayload == <<LoginTemplate, NoteTemplate>>

\* Raw item records as `op` lists them: ids of the vault and of the template,
\* an overview, and (from `get item` only) the detail fields.
RawItem(uuid, vaultUuid, templateUuid) ==
    [uuid |-> uuid, vaultUuid |-> vaultUuid, templateUuid |-> templateUuid,
     overview |-> [title |-> "t", ainfo |-> "user"]]
I1 == RawItem("i1", "v1", "001")
I2 == RawItem("i2", "v2", "003")
I3 == RawItem("i3", "v1", "999")
I4 == RawItem("i4", "v1", "003")
\* The listings `list items` answers with: in the model of all the operations,
\* and in the model of the item normalisation.
ShortLists == { <<I1>> }
LongLists == { <<I1, I2>>, <<I2, I3>>, <<I1, I4, I2>> }

\* The payloads `op` can answer a command with.
Payloads(kind, arg, lists) ==
    CASE kind = "getAccount"   -> {AccountPayload}
      [] kind = "getUsers"     -> {UsersPayload}
      [] kind = "getUser"      -> {UsersPayload[1]}
      [] kind = "getTemplates" -> {TemplatesPayload}
      [] kind = "getVaults"    -> {<<VaultPayload("v1"), VaultPayload("v2")>>}
      [] kind = "getVault"     -> {VaultPayload(arg)}
      [] kind = "getItems"     -> lists
      [] kind = "getItem"      -> {I1, I3}

\* The texts a subprocess writes in the concurrent model: a JSON payload, an
\* error envelope.
RawSamples == { <<JSON, SP>>, <<SENT, SP, SEP, ERR, SP, MSG>> }

\* ------------------------------------------------------------------ normalisation

\* getAccount's result, from the payload.
AccountOf(a) ==
    [uuid |-> a.uuid, name |-> a.name,
     avatarUrl |-> <<a.baseAvatarURL, a.uuid, "/", a.avatar>>,
     baseAvatarURL |-> <<a.baseAvatarURL, a.uuid>>,
     createdAt |-> a.createdAt]

userAvatarUrl(user, account) ==
    IF user.avatar # ""
    THEN account.baseAvatarURL \o <<"/", user.avatar>>
    ELSE <<"https://a.1password.com/app/images/avatar-person-default.png">>

UserOf(u, account) ==
    [uuid |-> u.uuid, firstName |-> u.firstName, lastName |-> u.lastName,
     email |-> u.email, avatarUrl |-> userAvatarUrl(u, account)]

UserDetailsOf(u, account) ==
    [uuid |-> u.uuid, firstName |-> u.firstName, lastName |-> u.lastName,
     email |-> u.email, language |-> u.language,
     avatarUrl |-> userAvatarUrl(u, account),
     createdAt |-> u.createdAt, updatedAt |-> u.updatedAt, lastAuthAt |-> u.lastAuthAt]

VaultDetailsOf(v, account) ==
    [uuid |-> v.uuid, name |-> v.name, description |-> v.desc,
     avatarUrl |-> IF v.avatar # ""
                   THEN account.baseAvatarURL \o <<"/", v.avatar>>
                   ELSE <<"https://a.1password.com/app/images/avatar-vault-default.png">>]

\* JavaScript's undefined, as the value of a string-valued property.
JSUndefined == "<undefined>"

\* String.prototype.toLowerCase on the field names and designations used here.
ToLowerCase(str) ==
    CASE str = "Password" -> "password"
      [] str = "PASSWORD" -> "password"
      [] str = "Username" -> "username"
      [] OTHER -> str

\* Array.prototype.find, given the callback's answer for each element: the
\* index of the first element it accepts, 0 if none.
FindIndex(hits) ==
    IF \E i \in 1..Len(hits) : hits[i]
    THEN CHOOSE i \in 1..Len(hits) : hits[i] /\ \A j \in 1..(i - 1) : ~hits[j]
    ELSE 0

\* Does the raw item carry details.fields?
HasFields(item) == "details" \in DOMAIN item

\* Mutant: the designation match is preferred over the name match.
mapperLoginDesignationFirst(item) ==
    IF HasFields(item)
    THEN LET fields == item.details.fields
             byName(f) == ToLowerCase(f.name) = "password" /\ f.type = "P"
             byDesignation(f) == ToLowerCase(f.designation) = "password" /\ f.type = "P"
             n == FindIndex([k \in 1..Len(fields) |-> byName(fields[k])])
             d == FindIndex([k \in 1..Len(fields) |-> byDesignation(fields[k])])
         IN [username |-> item.overview.ainfo,
             password |-> IF d # 0 THEN fields[d].value
                          ELSE IF n # 0 THEN fields[n].value ELSE JSUndefined]
    ELSE [username |-> item.overview.ainfo]

\* mapper's case '001' (Login): the properties it returns.
mapperLogin(item) ==
    IF HasFields(item)
    THEN LET fields == item.details.fields
             byName(f) == ToLowerCase(f.name) = "password" /\ f.type = "P"
             byDesignation(f) == ToLowerCase(f.designation) = "password" /\ f.type = "P"
             passwordFieldFromName == FindIndex([k \in 1..Len(fields) |-> byName(fields[k])])
             passwordFieldFromDesignation == FindIndex([k \in 1..Len(fields) |-> byDesignation(fields[k])])
         IN [username |-> item.overview.ainfo,
             password |-> IF passwordFieldFromName # 0
                          THEN fields[passwordFieldFromName].value
                          ELSE IF passwordFieldFromDesignation # 0
                               THEN fields[passwordFieldFromDesignation].value
                               ELSE JSUndefined]
    ELSE [username |-> item.overview.ainfo]

\* mapper: [throws |-> template is undefined (template.uuid is a TypeError),
\*          extra |-> the properties merged into the item (none by default)].
mapper(item, template) ==
    IF template = Undefined THEN [throws |-> TRUE, extra |-> <<>>]
    ELSE IF template.uuid = "001" THEN [throws |-> FALSE, extra |-> mapperLogin(item)]
    ELSE [throws |-> FALSE, extra |-> <<>>]

\* templates.find(template => template.uuid === templateUuid)
FindTemplate(templates, templateUuid) ==
    LET hit(t) == t.uuid = templateUuid
        i == FindIndex([k \in 1..Len(templates) |-> hit(templates[k])])
    IN IF i = 0 THEN Undefined ELSE templates[i]

\* Mutant: format leaves a bare reference to the vault (its id) in the item.
formatItemBareVault(item, vault, templates) ==
    LET template == FindTemplate(templates, item.templateUuid)
        m == mapper(item, template)
    IN [throws |-> m.throws,
        item |-> m.extra @@ [uuid |-> item.uuid,
                             vault |-> [uuid |-> item.vaultUuid, name |-> "",
                                        description |-> "", avatarUrl |-> <<>>],
                             template |-> template, title |-> item.overview.title]]

\* format, once the vault and the templates are resolved: the Item it returns
\* (Object.assign of the base shape and mapper's properties), or a throw.
formatItem(item, vault, templates) ==
    LET template == FindTemplate(templates, item.templateUuid)
        m == mapper(item, template)
    IN [throws |-> m.throws,
        item |-> m.extra @@ [uuid |-> item.uuid, vault |-> vault,
                             template |-> template, title |-> item.overview.title]]

\* trim's filter callback on one raw item: item.template.uuid === template.uuid,
\* a TypeError when the raw item has no `template` property.
FilterThrows(item, template) ==
    template # Undefined /\ "template" \notin DOMAIN item

FilterKeeps(item, template) ==
    IF template # Undefined THEN item.template.uuid = template.uuid ELSE TRUE

\* ------------------------------------------------------------------ state

VARIABLES
    now,          \* Date.now()
    itemsLength,  \* getItems.length as the build leaves it (1: the default
                  \* parameter is kept; 2: it is compiled away), memoizee's arity
    acts,         \* acts[c][n]: the n-th activation of an async function (its
                  \* promise, and the subprocess its exec forked) started on
                  \* behalf of public call c
    cache,        \* memoizee's caches: key -> activation
    itemLists,    \* the listings the op tool can answer `list items` with
    calls,        \* the public calls made, with the promise each returned
    buffers,      \* classifier run: the chunks of stdout received
    execRaw,      \* classifier run: exec's `raw` option
    outcome,      \* classifier run: what exec did with the output
    mItem,        \* mapper run: the raw item
    mapped        \* mapper run: what mapper returned

vars == <<now, itemsLength, itemLists, acts, cache, calls,
          buffers, execRaw, outcome, mItem, mapped>>

engineVars == <<now, itemsLength, itemLists, acts, cache, calls>>
execVars == <<buffers, execRaw, outcome>>
mapperVars == <<mItem, mapped>>

\* ------------------------------------------------------------------ memoize

\* The exports wrapped in memoize(...): all the queries but getVaults.
Memoized(kind) ==
    kind \in {"getAccount", "getUsers", "getUser", "getTemplates", "getVault",
              "getItems", "getItem"}

\* Function.length of the wrapped function: the number of arguments memoizee
\* keys on.
MemoLength(kind, len) ==
    CASE kind \in {"getAccount", "getUsers", "getTemplates"} -> 1
      [] kind \in {"getUser", "getVault", "getItem"} -> 2
      [] kind = "getItems" -> len
      [] OTHER -> 0

\* The identity of the second argument: the id string itself, or the options
\* object's identity (getSessionToken, which is not memoized, has no second
\* argument).
ArgId(kind, arg) ==
    CASE kind = "getItems" -> arg.oid
      [] kind = "signin" -> ""
      [] OTHER -> arg

\* Mutant: the cache is keyed on the operation and its argument, not on the session.
MemoKeyNoSession(kind, session, arg, len) ==
    <<kind, "slot", IF MemoLength(kind, len) = 2 THEN ArgId(kind, arg) ELSE "">>

\* memoizee's key: the first Function.length arguments, objects by identity.
MemoKey(kind, session, arg, len) ==
    <<kind, session.ref, IF MemoLength(kind, len) = 2 THEN ArgId(kind, arg) ELSE "">>

\* Mutant: nothing is ever found in the cache.
MemoHitNever(c, kind, key) == FALSE

\* Is there a cached promise for the call?
MemoHit(c, kind, key) == Memoized(kind) /\ key \in DOMAIN c

\* ------------------------------------------------------------------ exec

SessionFlag(token) ==
    CASE token = "tokA" -> "--session=tokA"
      [] token = "tokB" -> "--session=tokB"

VaultFlag(name) == CASE name = "Private" -> "--vault=Private"

\* The command string of each operation, split on ' '.
Command(kind, arg) ==
    CASE kind = "getAccount"   -> <<"get", "account">>
      [] kind = "getUsers"     -> <<"list", "users">>
      [] kind = "getUser"      -> <<"get", "user", arg>>
      [] kind = "getTemplates" -> <<"list", "templates">>
      [] kind = "getVaults"    -> <<"list", "vaults">>
      [] kind = "getVault"     -> <<"get", "vault", arg>>
      [] kind = "getItems"     -> <<"list", "items">>
      [] kind = "getItem"      -> <<"get", "item", arg>>
      [] kind = "signin"       -> <<"signin", arg.domain, arg.email, arg.secretKey,
                                    arg.masterPassword, "--output=raw">>

\* The vault option the operation hands to exec.
ExecVault(kind, arg) == IF kind = "getItems" THEN arg.vault ELSE Undefined

\* The raw option the operation hands to exec.
ExecRaw(kind) == kind = "signin"

\* The session gate of exec: does exec go on to forkBin?
GateOpen(session, t) == session = NoSession \/ isValidSession(session, t)

\* Mutant: the vault flag is pushed before the session flag.
ExecArgsVaultFirst(command, session, vault) ==
    command \o (IF vault # Undefined THEN <<VaultFlag(vault.name)>> ELSE <<>>)
            \o (IF session # NoSession THEN <<SessionFlag(session.token)>> ELSE <<>>)

\* exec's argument vector.
ExecArgs(command, session, vault) ==
    command \o (IF session # NoSession THEN <<SessionFlag(session.token)>> ELSE <<>>)
            \o (IF vault # Undefined THEN <<VaultFlag(vault.name)>> ELSE <<>>)

\* The tokens of the --session flags of an argument vector.
TokensOfArgs(args) ==
    { tok \in {"tokA", "tokB"} : \E i \in 1..Len(args) : args[i] = SessionFlag(tok) }

\* ------------------------------------------------------------------ activations

NoId == <<0, 0>>

\* An activation: `proc` is the subprocess its exec forked ("none" before or
\* without a fork), `toks` the session tokens and `pids` the subprocesses whose
\* output went into its value.
NewAct(kind, session, arg) ==
    [kind |-> kind, s |-> session, arg |-> arg, pc |-> "exec", status |-> "pending",
     val |-> <<>>, err |-> NoError, wait |-> NoId, kids |-> <<>>, data |-> <<>>,
     proc |-> "none", args |-> <<>>, toks |-> {}, pids |-> {}]

Resolved(a, v) == [a EXCEPT !.status = "resolved", !.pc = "done", !.val = v]
Rejected(a, e) == [a EXCEPT !.status = "rejected", !.pc = "done", !.err = e]

ActOf(M, id) == M.acts[id[1]][id[2]]
SetAct(M, id, a) == [M EXCEPT !.acts[id[1]][id[2]] = a]

\* A call of one of the exported query functions at instant t, on behalf of
\* public call `root`, in the state M = [acts, cache, len, id]: through
\* memoizee, then the function's body up to its first await, which is exec up
\* to forkBin (the session gate, the argument vector, the fork).  M.id is the
\* promise returned.
CallQuery(M, root, kind, session, arg, t) ==
    LET key == MemoKey(kind, session, arg, M.len)
    IN IF MemoHit(M.cache, kind, key)
       THEN [M EXCEPT !.id = M.cache[key]]
       ELSE LET id == <<root, Len(M.acts[root]) + 1>>
                a == NewAct(kind, session, arg)
                forked == [a EXCEPT !.proc = "open",
                             !.args = ExecArgs(Command(kind, arg), session,
                                               ExecVault(kind, arg))]
            IN [acts |-> [M.acts EXCEPT ![root] =
                            Append(@, IF GateOpen(session, t) THEN forked
                                      ELSE Rejected(a, SessionInvalid))],
                cache |-> IF Memoized(kind)
                          THEN [k \in DOMAIN M.cache \cup {key} |->
                                   IF k = key THEN id ELSE M.cache[k]]
                          ELSE M.cache,
                len |-> M.len,
                id |-> id]

\* trim's data.filter(...).map(async item => await format(item)): each format
\* runs up to its first await, the getVault call.
RECURSIVE StartFormats(_, _, _, _, _)
StartFormats(M, session, items, parent, t) ==
    IF items = <<>> THEN M
    ELSE LET root == parent[1]
             r == CallQuery(M, root, "getVault", session, Head(items).vaultUuid, t)
             fid == <<root, Len(r.acts[root]) + 1>>
             f == [NewAct("format", session, Head(items))
                     EXCEPT !.pc = "vault", !.wait = r.id]
             p == ActOf(r, parent)
             M2 == SetAct([r EXCEPT !.acts[root] = Append(@, f)], parent,
                          [p EXCEPT !.kids = Append(@, fid)])
         IN StartFormats(M2, session, Tail(items), parent, t)

\* new Fuse(items, fuseOptions).search(query): some of the items, in score order.
FuseResults(items) ==
    LET n == Len(items)
    IN UNION { { [i \in 1..k |-> items[f[i]]] :
                    f \in { g \in [1..k -> 1..n] :
                               \A x, y \in 1..k : x # y => g[x] # g[y] } } :
               k \in 0..n }

\* The function's body after `await exec(...)` returned payload, up to its next
\* await (or its return).  `listed` is what getItems hands to trim.
AfterExec(M, id, payload, listed, t) ==
    LET a == [ActOf(M, id) EXCEPT !.data = payload]
        kind == a.kind
    IN CASE kind \in {"getAccount"} -> SetAct(M, id, Resolved(a, AccountOf(payload)))
         [] kind \in {"getTemplates", "getVaults"} -> SetAct(M, id, Resolved(a, payload))
         [] kind \in {"getUsers", "getUser", "getVault"} ->
              LET r == CallQuery(M, id[1], "getAccount", a.s, "", t)
              IN SetAct(r, id, [a EXCEPT !.pc = "account", !.wait = r.id])
         [] kind = "getItems" ->
              IF \E i \in 1..Len(listed) : FilterThrows(listed[i], a.arg.template)
              THEN SetAct(M, id, Rejected(a, TypeErrorV))
              ELSE LET keep(it) == FilterKeeps(it, a.arg.template)
                       kept == SelectSeq(listed, keep)
                   IN IF kept = <<>>
                      THEN SetAct(M, id, Resolved(a, <<>>))
                      ELSE StartFormats(SetAct(M, id, [a EXCEPT !.pc = "all"]),
                                        a.s, kept, id, t)
         [] kind = "getItem" ->
              StartFormats(SetAct(M, id, [a EXCEPT !.pc = "all"]),
                           a.s, <<payload>>, id, t)

\* Mutant: getSessionToken lets the failure of exec through.
SessionTokenResultRethrows(a, c, t) ==
    IF c.kind = "ok"
    THEN Resolved(a, [token |-> c.text, expiresAt |-> generateTokenExpirationDate(t)])
    ELSE Rejected(a, [kind |-> c.kind, msg |-> c.msg])

\* getSessionToken after `await exec(...)` settled at instant t with outcome c:
\* the Session is built then; a failure is caught and returned.
SessionTokenResult(a, c, t) ==
    IF c.kind = "ok"
    THEN Resolved(a, [token |-> c.text, expiresAt |-> generateTokenExpirationDate(t)])
    ELSE Resolved(a, [kind |-> c.kind, msg |-> c.msg])

\* ------------------------------------------------------------------ actions

Engine == [acts |-> acts, cache |-> cache, len |-> itemsLength, id |-> NoId]

Becomes(M) ==
    /\ acts' = M.acts
    /\ cache' = M.cache

\* A public call by the caller.  The call record keeps the promise returned
\* (act), the instant (at), and which earlier calls of the same operation with
\* the same session object and argument were still pending (inflight) or had
\* resolved (succeeded) when this one was made.
PublicCall(kind, session, arg) ==
    /\ LET root == Len(calls) + 1
           M == CallQuery([Engine EXCEPT !.acts = Append(acts, <<>>)],
                          root, kind, session, arg, now)
           IsSame(c) == /\ calls[c].op = kind
                        /\ calls[c].s = session
                        /\ ArgId(calls[c].op, calls[c].arg) = ArgId(kind, arg)
           With(status) ==
               UNION { IF IsSame(c) /\ acts[calls[c].act[1]][calls[c].act[2]].status = status
                       THEN {c} ELSE {} : c \in 1..Len(calls) }
       IN /\ Becomes(M)
          /\ calls' = Append(calls,
                [op |-> kind, s |-> session, arg |-> arg, act |-> M.id, at |-> now,
                 result |-> FALSE,
                 inflight |-> With("pending"), succeeded |-> With("resolved")])
    /\ UNCHANGED <<now, itemsLength, itemLists, execVars, mapperVars>>

MayCall == Len(calls) < MaxCalls

GetAccount(session) == MayCall /\ PublicCall("getAccount", session, "")
GetUsers(session) == MayCall /\ PublicCall("getUsers", session, "")
GetUser(session, id) == MayCall /\ PublicCall("getUser", session, id)
GetTemplates(session) == MayCall /\ PublicCall("getTemplates", session, "")
GetVaults(session) == MayCall /\ PublicCall("getVaults", session, "")
GetVault(session, id) == MayCall /\ PublicCall("getVault", session, id)
GetItems(session, options) == MayCall /\ PublicCall("getItems", session, options)
GetItem(session, id) == MayCall /\ PublicCall("getItem", session, id)
GetSessionToken(credentials) == MayCall /\ PublicCall("signin", NoSession, credentials)

\* The same two calls as the only public call of a run.
ListItems(session, options) ==
    calls = <<>> /\ PublicCall("getItems", session, options)
FetchItem(session, id) ==
    calls = <<>> /\ PublicCall("getItem", session, id)

\* A direct call of isValidSession by the caller.
IsValidSession(session) ==
    /\ Len(calls) < MaxCalls
    /\ calls' = Append(calls, [op |-> "isValidSession", s |-> session, arg |-> "",
                               act |-> NoId, at |-> now,
                               result |-> isValidSession(session, now),
                               inflight |-> {}, succeeded |-> {}])
    /\ acts' = Append(acts, <<>>)
    /\ UNCHANGED <<now, itemsLength, itemLists, cache, execVars, mapperVars>>

\* Time passes.
Tick ==
    /\ now < MaxTime
    /\ now' = now + 1
    /\ UNCHANGED <<itemsLength, itemLists, acts, cache, calls, execVars, mapperVars>>

ActIds == UNION { { <<c, n>> : n \in 1..Len(acts[c]) } : c \in 1..Len(acts) }
A(id) == acts[id[1]][id[2]]

\* The child's 'close' event: forkBin resolves with the trimmed output, exec
\* classifies it, and the awaiting function goes on to its next await.
ProcClose(id) ==
    /\ A(id).proc = "open"
    /\ \E text \in RawSamples :
         LET a == [A(id) EXCEPT !.proc = "closed", !.toks = TokensOfArgs(A(id).args),
                                   !.pids = {id}]
             M == SetAct(Engine, id, a)
             c == Classify(ForkBinResult(text), ExecRaw(a.kind))
         IN IF a.kind = "signin"
            THEN Becomes(SetAct(M, id,
                    SessionTokenResult([a EXCEPT !.data = ForkBinResult(text)], c, now)))
            ELSE IF c.kind # "ok"
            THEN Becomes(SetAct(M, id, Rejected(a, [kind |-> c.kind, msg |-> c.msg])))
            ELSE \E payload \in Payloads(a.kind, a.arg, itemLists) :
                 \E listed \in (IF a.kind = "getItems" /\ a.arg.query # ""
                                THEN FuseResults(payload) ELSE {payload}) :
                     Becomes(AfterExec(M, id, payload, listed, now))
    /\ UNCHANGED <<now, itemsLength, itemLists, calls, execVars, mapperVars>>

\* The child's 'error' event: forkBin rejects, and so do exec and its caller.
ProcError(id) ==
    /\ A(id).proc = "open"
    /\ LET a == [A(id) EXCEPT !.proc = "closed"]
       IN Becomes(SetAct(Engine, id,
            IF a.kind = "signin" THEN SessionTokenResult(a, SpawnErrorV, now)
            ELSE Rejected(a, SpawnErrorV)))
    /\ UNCHANGED <<now, itemsLength, itemLists, calls, execVars, mapperVars>>

\* Mutant: an awaited promise is never seen to settle.
SettledNever(id) == FALSE

\* Has the promise settled (so that a function awaiting it may go on)?
Settled(id) == A(id).status # "pending"

\* getUsers / getUser / getVault after `await getAccount(session)`.
ResumeAccount(id) ==
    /\ A(id).pc = "account"
    /\ Settled(A(id).wait)
    /\ LET a == A(id)
           w == A(a.wait)
           b == [a EXCEPT !.toks = @ \cup w.toks, !.pids = @ \cup w.pids]
       IN Becomes(SetAct(Engine, id,
            IF w.status = "rejected" THEN Rejected(a, w.err)
            ELSE CASE a.kind = "getUsers" ->
                        Resolved(b, [i \in 1..Len(a.data) |-> UserOf(a.data[i], w.val)])
                   [] a.kind = "getUser" -> Resolved(b, UserDetailsOf(a.data, w.val))
                   [] a.kind = "getVault" -> Resolved(b, VaultDetailsOf(a.data, w.val))))
    /\ UNCHANGED <<now, itemsLength, itemLists, calls, execVars, mapperVars>>

\* format after `await getVault(session, vaultUuid)`: on to getTemplates.
ResumeVault(id) ==
    /\ A(id).pc = "vault"
    /\ Settled(A(id).wait)
    /\ LET a == A(id)
           w == A(a.wait)
       IN IF w.status = "rejected"
          THEN Becomes(SetAct(Engine, id, Rejected(a, w.err)))
          ELSE LET r == CallQuery(Engine, id[1], "getTemplates", a.s, "", now)
               IN Becomes(SetAct(r, id,
                     [a EXCEPT !.pc = "templates", !.wait = r.id, !.data = w.val,
                               !.toks = @ \cup w.toks, !.pids = @ \cup w.pids]))
    /\ UNCHANGED <<now, itemsLength, itemLists, calls, execVars, mapperVars>>

\* format after `await getTemplates(session)`: find, mapper, the Item.
ResumeTemplates(id) ==
    /\ A(id).pc = "templates"
    /\ Settled(A(id).wait)
    /\ LET a == A(id)
           w == A(a.wait)
           b == [a EXCEPT !.toks = @ \cup w.toks, !.pids = @ \cup w.pids]
       IN Becomes(SetAct(Engine, id,
            IF w.status = "rejected" THEN Rejected(a, w.err)
            ELSE LET f == formatItem(a.arg, a.data, w.val)
                 IN IF f.throws THEN Rejected(b, TypeErrorV) ELSE Resolved(b, f.item)))
    /\ UNCHANGED <<now, itemsLength, itemLists, calls, execVars, mapperVars>>

\* getItems / getItem after `await trim(...)`: Promise.all over the formats
\* rejects with the first rejection, and resolves once every format has.
SettleAll(id) ==
    /\ A(id).pc = "all"
    /\ LET a == A(id)
           kids == a.kids
           b == [a EXCEPT !.toks = @ \cup UNION {A(kids[i]).toks : i \in 1..Len(kids)},
                          !.pids = @ \cup UNION {A(kids[i]).pids : i \in 1..Len(kids)}]
       IN \/ \E i \in 1..Len(kids) :
               /\ A(kids[i]).status = "rejected"
               /\ Becomes(SetAct(Engine, id, Rejected(a, A(kids[i]).err)))
          \/ /\ \A i \in 1..Len(kids) : A(kids[i]).status = "resolved"
             /\ Becomes(SetAct(Engine, id,
                   IF a.kind = "getItem" THEN Resolved(b, A(kids[1]).val)
                   ELSE Resolved(b, [i \in 1..Len(kids) |-> A(kids[i]).val])))
    /\ UNCHANGED <<now, itemsLength, itemLists, calls, execVars, mapperVars>>

UserIds == {"u1"}
VaultIds == {"v1"}
ItemIds == {"i1"}

\* Any one of the query operations as the only public call of a run.
QueryKinds ==
    {"getAccount", "getUsers", "getUser", "getTemplates", "getVaults", "getVault",
     "getItems", "getItem"}
ArgsOf(kind) ==
    CASE kind = "getUser" -> UserIds
      [] kind = "getVault" -> VaultIds
      [] kind = "getItem" -> ItemIds
      [] kind = "getItems" -> {O0, O3}
      [] OTHER -> {""}
OnlyQuery(kind, session, arg) == calls = <<>> /\ PublicCall(kind, session, arg)
OnlySignin(credentials) == calls = <<>> /\ PublicCall("signin", NoSession, credentials)

\* ------------------------------------------------------------------ classifier run

\* The child's stdout 'data' event: one more chunk is buffered.
Data(tok) ==
    /\ outcome.kind = "none"
    /\ Len(buffers) < MaxRawLen
    /\ buffers' = Append(buffers, tok)
    /\ UNCHANGED <<engineVars, execRaw, outcome, mapperVars>>

\* The child's 'close' event, and exec's handling of the result.
Close ==
    /\ outcome.kind = "none"
    /\ outcome' = Classify(ForkBinResult(buffers), execRaw)
    /\ UNCHANGED <<engineVars, buffers, execRaw, mapperVars>>

\* ------------------------------------------------------------------ mapper run

FieldNames == {"password", "Password", "username"}
FieldDesignations == {"password", "PASSWORD", ""}
FieldTypes == {"P", "T"}
FieldValues == {"x", "y"}

Fields ==
    [name : FieldNames, designation : FieldDesignations, type : FieldTypes,
     value : FieldValues]

FieldLists == UNION { [1..n -> Fields] : n \in 0..MaxFields }

WithFields(item, fields) ==
    [uuid |-> item.uuid, vaultUuid |-> item.vaultUuid, templateUuid |-> item.templateUuid,
     overview |-> item.overview, details |-> [fields |-> fields]]

NotMapped == [applied |-> FALSE, template |-> Undefined, throws |-> FALSE, extra |-> <<>>]

\* mapper(item, template) is called.
ApplyMapper(template) ==
    /\ ~mapped.applied
    /\ LET m == mapper(mItem, template)
       IN mapped' = [applied |-> TRUE, template |-> template, throws |-> m.throws,
                     extra |-> m.extra]
    /\ UNCHANGED <<engineVars, execVars, mItem>>

\* ------------------------------------------------------------------ specifications

Init ==
    /\ now = 0
    /\ itemsLength \in {1, 2}
    /\ itemLists = ShortLists
    /\ acts = <<>>
    /\ cache = <<>>
    /\ calls = <<>>
    /\ buffers = <<>>
    /\ execRaw = FALSE
    /\ outcome = [kind |-> "none", msg |-> <<>>, text |-> <<>>, parsed |-> FALSE]
    /\ mItem = I1
    /\ mapped = NotMapped

Next ==
    \/ \E s \in Sessions : GetAccount(s)
    \/ \E s \in Sessions : GetUsers(s)
    \/ \E s \in Sessions, id \in UserIds : GetUser(s, id)
    \/ \E s \in Sessions : GetTemplates(s)
    \/ \E s \in Sessions : GetVaults(s)
    \/ \E s \in Sessions, id \in VaultIds : GetVault(s, id)
    \/ \E s \in Sessions, o \in {O0, O1} : GetItems(s, o)
    \/ \E s \in Sessions, id \in ItemIds : GetItem(s, id)
    \/ \E s \in Sessions : IsValidSession(s)
    \/ Tick
    \/ \E id \in ActIds : ProcClose(id)
    \/ \E id \in ActIds : ProcError(id)
    \/ \E id \in ActIds : ResumeAccount(id)
    \/ \E id \in ActIds : ResumeVault(id)
    \/ \E id \in ActIds : ResumeTemplates(id)
    \/ \E id \in ActIds : SettleAll(id)

\* All the operations, called concurrently (getItems without a query; the
\* fuzzy search is part of the model of the item normalisation).
Spec == Init /\ [][Next]_vars

NextVault ==
    \/ \E s \in Sessions : GetAccount(s)
    \/ \E s \in Sessions, id \in VaultIds \cup {"v2"} : GetVault(s, id)
    \/ Tick
    \/ \E id \in ActIds : ProcClose(id)
    \/ \E id \in ActIds : ProcError(id)
    \/ \E id \in ActIds : ResumeAccount(id)

\* getVault and the getAccount it depends on, called concurrently.
SpecVault == Init /\ [][NextVault]_vars

NextGate ==
    \/ \E s \in Sessions : IsValidSession(s)
    \/ \E s \in Sessions : GetAccount(s)
    \/ Tick
    \/ \E id \in ActIds : ProcClose(id)
    \/ \E id \in ActIds : ProcError(id)

\* Direct isValidSession calls between getAccount calls.
SpecGate == Init /\ [][NextGate]_vars

NextArgs ==
    \/ \E kind \in QueryKinds, s \in Sessions :
          \E arg \in ArgsOf(kind) : OnlyQuery(kind, s, arg)
    \/ OnlySignin(Creds)
    \/ Tick
    \/ \E id \in ActIds : ProcClose(id)
    \/ \E id \in ActIds : ProcError(id)
    \/ \E id \in ActIds : ResumeAccount(id)
    \/ \E id \in ActIds : ResumeVault(id)
    \/ \E id \in ActIds : ResumeTemplates(id)
    \/ \E id \in ActIds : SettleAll(id)

\* One call of any operation, getSessionToken and scoped getItems included.
SpecArgs == Init /\ [][NextArgs]_vars

NextSignin ==
    \/ GetSessionToken(Creds)
    \/ Tick
    \/ \E id \in ActIds : ProcClose(id)
    \/ \E id \in ActIds : ProcError(id)

\* getSessionToken calls while time passes.
SpecSignin == Init /\ [][NextSignin]_vars

InitItems ==
    /\ now = 0
    /\ itemsLength \in {1, 2}
    /\ itemLists = LongLists
    /\ acts = <<>>
    /\ cache = <<>>
    /\ calls = <<>>
    /\ buffers = <<>>
    /\ execRaw = FALSE
    /\ outcome = [kind |-> "none", msg |-> <<>>, text |-> <<>>, parsed |-> FALSE]
    /\ mItem = I1
    /\ mapped = NotMapped

NextItems ==
    \/ \E s \in Sessions, o \in ItemsOptions : ListItems(s, o)
    \/ \E s \in Sessions, id \in ItemIds : FetchItem(s, id)
    \/ Tick
    \/ \E id \in ActIds : ProcClose(id)
    \/ \E id \in ActIds : ProcError(id)
    \/ \E id \in ActIds : ResumeAccount(id)
    \/ \E id \in ActIds : ResumeVault(id)
    \/ \E id \in ActIds : ResumeTemplates(id)
    \/ \E id \in ActIds : SettleAll(id)

\* One getItems or getItem call over listings of several items.
SpecItems == InitItems /\ [][NextItems]_vars

InitLive ==
    /\ now = 0
    /\ itemsLength \in {1, 2}
    /\ itemLists = { <<I1, I2>> }
    /\ acts = <<>>
    /\ cache = <<>>
    /\ calls = <<>>
    /\ buffers = <<>>
    /\ execRaw = FALSE
    /\ outcome = [kind |-> "none", msg |-> <<>>, text |-> <<>>, parsed |-> FALSE]
    /\ mItem = I1
    /\ mapped = NotMapped

NextLive ==
    \/ GetItems(S2, O0)
    \/ \E id \in ActIds : ProcClose(id)
    \/ \E id \in ActIds : ProcError(id)
    \/ \E id \in ActIds : ResumeAccount(id)
    \/ \E id \in ActIds : ResumeVault(id)
    \/ \E id \in ActIds : ResumeTemplates(id)
    \/ \E id \in ActIds : SettleAll(id)

\* Every subprocess eventually closes or fails to spawn (the assumption made
\* about the op tool), and a continuation whose awaited promise has settled
\* eventually runs (the event loop runs every queued job).
Fairness ==
    /\ WF_vars(\E id \in ActIds : ProcClose(id) \/ ProcError(id))
    /\ WF_vars(\E id \in ActIds : ResumeAccount(id))
    /\ WF_vars(\E id \in ActIds : ResumeVault(id))
    /\ WF_vars(\E id \in ActIds : ResumeTemplates(id))
    /\ WF_vars(\E id \in ActIds : SettleAll(id))

\* getItems calls made concurrently with one session, every subprocess ending.
SpecLive == InitLive /\ [][NextLive]_vars /\ Fairness

InitExec ==
    /\ now = 0
    /\ itemsLength = 1
    /\ itemLists = ShortLists
    /\ acts = <<>>
    /\ cache = <<>>
    /\ calls = <<>>
    /\ buffers = <<>>
    /\ execRaw \in BOOLEAN
    /\ outcome = [kind |-> "none", msg |-> <<>>, text |-> <<>>, parsed |-> FALSE]
    /\ mItem = I1
    /\ mapped = NotMapped

NextExec ==
    \/ \E tok \in Tokens : Data(tok)
    \/ Close

\* One exec call: the subprocess writes its output, closes, and exec classifies it.
SpecExec == InitExec /\ [][NextExec]_vars

InitMapper ==
    /\ now = 0
    /\ itemsLength = 1
    /\ itemLists = ShortLists
    /\ acts = <<>>
    /\ cache = <<>>
    /\ calls = <<>>
    /\ buffers = <<>>
    /\ execRaw = FALSE
    /\ outcome = [kind |-> "none", msg |-> <<>>, text |-> <<>>, parsed |-> FALSE]
    /\ mItem \in {I1} \cup { WithFields(I1, fs) : fs \in FieldLists }
    /\ mapped = NotMapped

NextMapper == \E t \in {LoginTemplate, NoteTemplate, Undefined} : ApplyMapper(t)

\* One mapper call on an item with any detail fields.
SpecMapper == InitMapper /\ [][NextMapper]_vars

\* ------------------------------------------------------------------ claims

CallAct(c) == A(calls[c].act)
Privileged(c) == calls[c].op \notin {"isValidSession", "signin"}
Forked == { id \in ActIds : A(id).proc # "none" }

\* C1: a privileged call made with a session that is expired at call time
\* fails with SessionError, also when the same call succeeded earlier.
C1_ExpiredCallFailsWithSessionError ==
    \A c \in 1..Len(calls) :
        (/\ Privileged(c)
         /\ calls[c].at >= calls[c].s.expiresAt
         /\ CallAct(c).status # "pending")
        => (CallAct(c).status = "rejected" /\ CallAct(c).err.kind = "SessionError")

\* C2: at most one subprocess running an operation's own command is forked per
\* (operation, session token, arguments).
C2_AtMostOneSpawnPerKey ==
    \A a, b \in Forked :
        (/\ A(a).kind = A(b).kind
         /\ A(a).s.token = A(b).s.token
         /\ A(a).arg = A(b).arg)
        => a = b

\* The subprocesses forked as 'get vault <id> --session=<token of session>'.
GetVaultForks(session, id) ==
    { a \in Forked : A(a).args = ExecArgs(Command("getVault", id), session, Undefined) }

\* C3: a getVault call made while an earlier getVault call with the same
\* session and id is pending causes no second 'get vault <id>' subprocess, and
\* both callers get the same value or the same failure.
C3_ConcurrentGetVaultSingleFlight ==
    \A c2 \in 1..Len(calls) :
        calls[c2].op = "getVault" =>
            \A c1 \in calls[c2].inflight :
                LET p1 == CallAct(c1)
                    p2 == CallAct(c2)
                IN /\ Cardinality(GetVaultForks(calls[c2].s, calls[c2].arg)) = 1
                   /\ p1.status = p2.status
                   /\ p1.pids = p2.pids
                   /\ p1.status = "resolved" => p1.val = p2.val
                   /\ p1.status = "rejected" => p1.err = p2.err

\* C3's case: the second of two concurrent getVault calls has resolved.
C3_Witness ==
    \E c2 \in 1..Len(calls) :
        /\ calls[c2].op = "getVault"
        /\ calls[c2].inflight # {}
        /\ CallAct(c2).status = "resolved"

\* The message of an error envelope with one '---' and, after it, one
\* '(ERROR)': the text after '(ERROR)', trimmed.
Count(s, tok) == Cardinality({ i \in 1..Len(s) : s[i] = tok })
IndexOf(s, tok) == CHOOSE i \in 1..Len(s) : s[i] = tok
IsEnvelope(r) ==
    /\ StartsWith(r, SENT)
    /\ Count(r, SEP) = 1
    /\ Count(r, ERR) = 1
    /\ IndexOf(r, SEP) < IndexOf(r, ERR)
EnvelopeMessage(r) == Trim(SubSeq(r, IndexOf(r, ERR) + 1, Len(r)))

\* C4: an error envelope whose message is neither the not-signed-in nor the
\* 401 message fails with a QueryError carrying exactly the trimmed message.
C4_OtherMessageIsQueryError ==
    LET r == Trim(buffers)
    IN (/\ outcome.kind # "none"
        /\ IsEnvelope(r)
        /\ ~Includes(EnvelopeMessage(r), NSI)
        /\ ~Includes(EnvelopeMessage(r), A401))
       => (outcome.kind = "QueryError" /\ outcome.msg = EnvelopeMessage(r))

NotSignedInEnvelope(r) ==
    /\ StartsWith(r, SENT)
    /\ \E p, e, n \in 1..Len(r) :
         /\ p < e /\ e < n
         /\ r[p] = SEP /\ \A k \in 1..(p - 1) : r[k] # SEP
         /\ r[e] = ERR /\ \A k \in (p + 1)..(e - 1) : r[k] \notin {SEP, ERR}
         /\ r[n] = NSI /\ \A k \in (e + 1)..n : r[k] \notin {SEP, ERR}

C6_NoValueAcrossSessions ==
    \A c \in 1..Len(calls) :
        Privileged(c) => CallAct(c).toks \subseteq {calls[c].s.token}

\* C6's case: the same memoized query has resolved for two sessions with
\* different tokens.
C6_Witness ==
    \E c1, c2 \in 1..Len(calls) :
        /\ calls[c1].op = calls[c2].op
        /\ Memoized(calls[c1].op)
        /\ calls[c1].s.token # calls[c2].s.token
        /\ CallAct(c1).status = "resolved"
        /\ CallAct(c2).status = "resolved"

\* The raw items a getItems or getItem activation handed to format, in order.
Formatted(a) == [i \in 1..Len(a.kids) |-> A(a.kids[i]).arg]

\* C7: getItems with a template filter returns exactly the listed items whose
\* template id is the filter's, and does not fail because of the filter: when
\* it fails, one of the item normalisations has failed.
C7_TemplateFilterSelects ==
    \A id \in ActIds :
        LET a == A(id)
        IN (/\ a.kind = "getItems"
            /\ a.arg.template # Undefined
            /\ a.arg.query = ""
            /\ a.data # <<>>)
           => /\ a.status = "rejected" =>
                    \E i \in 1..Len(a.kids) : A(a.kids[i]).status = "rejected"
              /\ a.status = "resolved" =>
                    LET want(it) == it.templateUuid = a.arg.template.uuid
                        listed == SelectSeq(a.data, want)
                    IN /\ Len(a.val) = Len(listed)
                       /\ \A i \in 1..Len(listed) : a.val[i].uuid = listed[i].uuid

\* The Items a resolved getItems or getItem activation returned, in order.
Returned(a) == IF a.kind = "getItem" THEN <<a.val>> ELSE a.val

\* C8: every Item returned by getItems or getItem carries the VaultDetails that
\* getVault(session, vaultUuid) resolved to and the entry of
\* getTemplates(session) with the item's templateUuid, never a bare id or
\* undefined.
C8_ItemsCarryResolvedDetails ==
    \A id \in ActIds :
        LET a == A(id)
        IN (a.kind \in {"getItems", "getItem"} /\ a.status = "resolved") =>
           /\ Len(Returned(a)) = Len(a.kids)
           /\ \A i \in 1..Len(a.kids) :
                LET raw == Formatted(a)[i]
                    item == Returned(a)[i]
                    vkey == <<"getVault", a.s.ref, raw.vaultUuid>>
                    tkey == <<"getTemplates", a.s.ref, "">>
                IN /\ item.uuid = raw.uuid
                   /\ vkey \in DOMAIN cache
                   /\ A(cache[vkey]).status = "resolved"
                   /\ item.vault = A(cache[vkey]).val
                   /\ item.vault.uuid = raw.vaultUuid
                   /\ tkey \in DOMAIN cache
                   /\ A(cache[tkey]).status = "resolved"
                   /\ item.template # Undefined
                   /\ item.template.uuid = raw.templateUuid
                   /\ \E j \in 1..Len(A(cache[tkey]).val) :
                         A(cache[tkey]).val[j] = item.template

\* C8's case: getItems has returned two normalised items.
C8_Witness ==
    \E id \in ActIds :
        /\ A(id).kind = "getItems"
        /\ A(id).status = "resolved"
        /\ Len(A(id).val) = 2

\* 'password', compared without regard to case.
IsPasswordWord(str) == str \in {"password", "Password", "PASSWORD"}
NameMatches(fields) ==
    { i \in 1..Len(fields) : IsPasswordWord(fields[i].name) /\ fields[i].type = "P" }
DesignationMatches(fields) ==
    { i \in 1..Len(fields) :
        IsPasswordWord(fields[i].designation) /\ fields[i].type = "P" }
First(S) == CHOOSE i \in S : \A j \in S : i <= j

\* C9: for a Login item, password is the value of the field matched by name,
\* else of the field matched by designation, else absent (undefined); username
\* is overview.ainfo in every case.
C9_LoginPasswordPrecedence ==
    (mapped.applied /\ mapped.template = LoginTemplate) =>
        /\ ~mapped.throws
        /\ mapped.extra.username = mItem.overview.ainfo
        /\ IF HasFields(mItem)
           THEN LET fields == mItem.details.fields
                    N == NameMatches(fields)
                    D == DesignationMatches(fields)
                IN mapped.extra.password =
                      IF N # {} THEN fields[First(N)].value
                      ELSE IF D # {} THEN fields[First(D)].value
                      ELSE JSUndefined
           ELSE "password" \notin DOMAIN mapped.extra

\* C9's case: a Login item where a field matches by designation only, a later
\* field matches by name, and the two hold different values.
C9_Witness ==
    /\ mapped.applied
    /\ mapped.template = LoginTemplate
    /\ HasFields(mItem)
    /\ \E i \in NameMatches(mItem.details.fields) :
       \E j \in DesignationMatches(mItem.details.fields) \ NameMatches(mItem.details.fields) :
           /\ j < i
           /\ mItem.details.fields[i].value # mItem.details.fields[j].value

\* C10: a direct isValidSession call answers true exactly when the instant of
\* the call is strictly before session.expiresAt, and it leaves the
\* activations, the subprocesses and the cache as they were.
C10_IsValidSessionStrictAndPure ==
    [][(/\ Len(calls') = Len(calls) + 1
        /\ calls'[Len(calls')].op = "isValidSession")
       => /\ calls'[Len(calls')].result =
                (calls'[Len(calls')].at < calls'[Len(calls')].s.expiresAt)
          /\ calls'[Len(calls')].at = now
          /\ now' = now
          /\ cache' = cache
          /\ \A c \in 1..Len(acts) : acts'[c] = acts[c]
          /\ acts'[Len(acts')] = <<>>]_vars

\* C10's case: isValidSession was called at exactly session.expiresAt, and
\* again at a later instant.
C10_Witness ==
    \E c1, c2 \in 1..Len(calls) :
        /\ calls[c1].op = "isValidSession"
        /\ calls[c1].at = calls[c1].s.expiresAt
        /\ calls[c2].op = "isValidSession"
        /\ calls[c2].at > calls[c2].s.expiresAt

\* The activations whose exec call failed: refused by the gate, or rejected
\* with what the subprocess wrote or with its spawn error.
ExecFailed == { id \in ActIds : /\ A(id).kind # "format"
                                /\ A(id).status = "rejected"
                                /\ A(id).data = <<>> }

\* C12 as stated: once an exec call has failed, no subprocess is forked any
\* more on behalf of the public call it belongs to.
C12_NoSpawnAfterFailure ==
    [][\A id \in ActIds' \ ActIds :
          acts'[id[1]][id[2]].proc = "open" => ~\E f \in ExecFailed : f[1] = id[1]]_vars

\* C12 (amended): an exec call forks at most one subprocess, and once it has
\* failed the same query is not forked again on behalf of the same public call.
C12_NoRetry ==
    [][/\ \A id \in ActIds :
            /\ acts'[id[1]][id[2]].args = A(id).args
            /\ acts'[id[1]][id[2]].proc # A(id).proc =>
                  (A(id).proc = "open" /\ acts'[id[1]][id[2]].proc = "closed")
       /\ \A id \in ActIds' \ ActIds :
            acts'[id[1]][id[2]].proc = "open" =>
               ~\E f \in ExecFailed :
                    /\ f[1] = id[1]
                    /\ A(f).kind = acts'[id[1]][id[2]].kind
                    /\ A(f).s = acts'[id[1]][id[2]].s
                    /\ A(f).arg = acts'[id[1]][id[2]].arg]_vars

\* C12's case: a getItems call over several items has run to its end after an
\* exec call of one of its lookups failed in its subprocess.
C12_Witness ==
    /\ Len(calls) = 1
    /\ calls[1].op = "getItems"
    /\ Len(CallAct(1).kids) >= 2
    /\ \E f \in ExecFailed : A(f).proc = "closed" /\ A(f).kind = "getAccount"
    /\ \A id \in ActIds : A(id).status # "pending" /\ A(id).proc # "open"

\* C13: a subprocess carrying a --session flag is forked only at an instant at
\* which that session is valid, and an exec entered with an expired session
\* rejects with SessionError and forks nothing; this holds for each nested
\* query of a composite operation.
C13_SpawnOnlyWhileValid ==
    [][\A id \in ActIds' \ ActIds :
          LET a == acts'[id[1]][id[2]]
          IN (a.kind # "format" /\ a.s # NoSession) =>
                IF a.s.expiresAt > now
                THEN a.proc = "open" /\ TokensOfArgs(a.args) = {a.s.token}
                ELSE /\ a.proc = "none"
                     /\ a.args = <<>>
                     /\ a.status = "rejected"
                     /\ a.err.kind = "SessionError"]_vars

\* C13's case: the subprocess of a getVault call closed after the session had
\* expired, and the nested getAccount was refused without a subprocess.
C13_Witness ==
    \E id \in ActIds :
        /\ A(id).kind = "getVault"
        /\ A(id).proc = "closed"
        /\ A(id).wait # NoId
        /\ A(id).wait[1] = id[1]
        /\ A(A(id).wait).kind = "getAccount"
        /\ A(A(id).wait).proc = "none"
        /\ A(A(id).wait).err.kind = "SessionError"
        /\ A(id).status = "rejected"

\* The earlier calls of the operation of call c with the same session object
\* and the same argument.
SameCallsBefore(c) ==
    { b \in 1..(c - 1) :
        /\ calls[b].op = calls[c].op
        /\ calls[b].s.ref = calls[c].s.ref
        /\ ArgId(calls[b].op, calls[b].arg) = ArgId(calls[c].op, calls[c].arg) }

\* C15 as stated: a getItems call never returns the promise of an earlier
\* getItems call with the same session whose options differ.
C15_ItemsKeyedOnOptions ==
    \A c \in 1..Len(calls) : \A b \in 1..(c - 1) :
        (/\ calls[c].op = "getItems" /\ calls[b].op = "getItems"
         /\ calls[b].s = calls[c].s
         /\ calls[b].arg # calls[c].arg)
        => calls[c].act # calls[b].act

\* C19: a call of a memoized operation made after a call with the same session
\* object and arguments has rejected returns that same rejected promise and
\* forks nothing, and no cache entry is ever removed or replaced.
C19_RejectionsStayCached ==
    [][/\ \A k \in DOMAIN cache : k \in DOMAIN cache' /\ cache'[k] = cache[k]
       /\ (Len(calls') = Len(calls) + 1 /\ Memoized(calls'[Len(calls')].op)) =>
             LET c == Len(calls')
                 old == { b \in 1..Len(calls) :
                            /\ calls[b].op = calls'[c].op
                            /\ calls[b].s.ref = calls'[c].s.ref
                            /\ ArgId(calls[b].op, calls[b].arg)
                                  = ArgId(calls'[c].op, calls'[c].arg)
                            /\ CallAct(b).status = "rejected" }
             IN \A b \in old :
                  /\ calls'[c].act = calls[b].act
                  /\ acts'[c] = <<>>
                  /\ \A r \in 1..Len(acts) : acts'[r] = acts[r]]_vars

\* C19's case: a memoized call was repeated after it had rejected, and a new
\* entry was cached afterwards.
C19_Witness ==
    \E c \in 1..Len(calls) :
        /\ Memoized(calls[c].op)
        /\ SameCallsBefore(c) \ (calls[c].inflight \cup calls[c].succeeded) # {}
        /\ CallAct(c).status = "rejected"
        /\ CallAct(c).proc = "closed"

\* The subprocesses forked for the lookups of the item normalisation.
LookupForks == { id \in Forked : A(id).kind \in {"getVault", "getTemplates", "getAccount"} }

\* C14: one getItems call forks at most one 'get vault <id>' per vault id, at
\* most one 'list templates' and at most one 'get account', in whatever order
\* the normalisations of the items and the subprocesses complete.
C14_OneLookupPerListing ==
    (Len(calls) = 1 /\ calls[1].op = "getItems") =>
        /\ \A a, b \in LookupForks :
              (A(a).kind = A(b).kind /\ A(a).arg = A(b).arg) => a = b
        /\ \A a \in LookupForks : A(a).s = calls[1].s

\* C14's case: a listing of three items, two of them in the same vault, was
\* normalised.
C14_Witness ==
    /\ Len(calls) = 1
    /\ calls[1].op = "getItems"
    /\ CallAct(1).status = "resolved"
    /\ Len(CallAct(1).val) = 3
    /\ CallAct(1).val[1].vault.uuid = CallAct(1).val[2].vault.uuid
    /\ Cardinality({ a \in LookupForks : A(a).kind = "getVault" }) = 2
    /\ Cardinality({ a \in LookupForks : A(a).kind = "getAccount" }) = 1

\* C16: if every subprocess eventually closes or errors, every public call
\* eventually settles, whether it shares a cached promise in flight, waits on
\* nested cached queries or normalises a list of items.
C16_EveryCallSettles ==
    \A c \in 1..MaxCalls :
        [](Len(calls) >= c => <>(Len(calls) >= c /\ CallAct(c).status # "pending"))

\* C16's case: a getItems call that joined the pending promise of an earlier
\* one has resolved with the items of a listing of two.
C16_Witness ==
    \E c1, c2 \in 1..Len(calls) :
        /\ c1 \in calls[c2].inflight
        /\ calls[c2].act = calls[c1].act
        /\ CallAct(c2).status = "resolved"
        /\ Len(CallAct(c2).val) = 2

\* The text has a '---' and, between the first '---' and the next one (or the
\* end), an '(ERROR)'.
HasMarkers(r) ==
    \E p, e \in 1..Len(r) :
        /\ p < e
        /\ r[p] = SEP /\ \A k \in 1..(p - 1) : r[k] # SEP
        /\ r[e] = ERR /\ \A k \in (p + 1)..(e - 1) : r[k] # SEP

\* C17: output (as forkBin hands it to exec) that begins with the sentinel is
\* always a failure: SessionError or QueryError, or a TypeError exactly when a
\* marker is missing.  Other output is returned as it is when raw was asked
\* for; otherwise it is parsed, and a parse failure is a SyntaxError.
C17_OneOutcomePerOutput ==
    outcome.kind # "none" =>
        LET r == ForkBinResult(buffers)
        IN IF r # <<>> /\ r[1] = SENT
           THEN /\ outcome.kind \in {"SessionError", "QueryError", "TypeError"}
                /\ outcome.kind = "TypeError" <=> ~HasMarkers(r)
           ELSE IF execRaw
           THEN outcome.kind = "ok" /\ outcome.text = r /\ ~outcome.parsed
           ELSE IF r = <<JSON>>
           THEN outcome.kind = "ok" /\ outcome.text = r /\ outcome.parsed
           ELSE outcome.kind = "SyntaxError"

\* C17's case: an output with the sentinel and '---' but no '(ERROR)' after it
\* was classified.
C17_Witness ==
    /\ outcome.kind = "TypeError"
    /\ StartsWith(ForkBinResult(buffers), SENT)
    /\ Count(buffers, SEP) = 1
    /\ Count(buffers, ERR) = 0

\* C18: the argument vector of every forked subprocess is the command split
\* on spaces, then --session=<token> exactly when a session was supplied, then
\* --vault=<name> exactly when a vault scope was supplied, and nothing else;
\* signin carries no --session flag and only 'list items' a --vault flag.
C18_ArgumentVector ==
    \A id \in Forked :
        LET a == A(id)
            n == Len(Command(a.kind, a.arg))
            flags == SubSeq(a.args, n + 1, Len(a.args))
            scoped == a.kind = "getItems" /\ a.arg.vault # Undefined
            IsSessionFlag(x) == x \in {"--session=tokA", "--session=tokB"}
            IsVaultFlag(x) == x = "--vault=Private"
        IN /\ Len(a.args) >= n
           /\ SubSeq(a.args, 1, n) = Command(a.kind, a.arg)
           /\ (a.s = NoSession) <=> (a.kind = "signin")
           /\ Len(flags) = (IF a.s # NoSession THEN 1 ELSE 0) + (IF scoped THEN 1 ELSE 0)
           /\ a.s # NoSession => flags[1] = SessionFlag(a.s.token)
           /\ scoped => flags[Len(flags)] = VaultFlag(a.arg.vault.name)
           /\ a.kind = "signin" => \A i \in 1..Len(a.args) : ~IsSessionFlag(a.args[i])
           /\ (\E i \in 1..Len(a.args) : IsVaultFlag(a.args[i])) =>
                 a.args[1] = "list" /\ a.args[2] = "items"

\* C18's case: 'list items' was forked with a session and a vault scope.
C18_Witness ==
    \E id \in Forked :
        A(id).args = <<"list", "items", "--session=tokA", "--vault=Private">>

\* A getSessionToken call has settled with a Session (a value with a token).
GotSession(c) ==
    /\ calls[c].op = "signin"
    /\ CallAct(c).status = "resolved"
    /\ "token" \in DOMAIN CallAct(c).val

\* C11: the Session of a successful getSessionToken expires exactly 29 minutes
\* after the instant getSessionToken was called, however long signin took.
C11_LeaseCountsFromCall ==
    \A c \in 1..Len(calls) :
        GotSession(c) => CallAct(c).val.expiresAt = calls[c].at + 29

\* C20: getSessionToken never rejects; when exec failed it resolves with the
\* error object, and it resolves with a value that has a token only when the
\* signin output did not start with the error sentinel.
C20_SigninNeverRejects ==
    \A c \in 1..Len(calls) :
        calls[c].op = "signin" =>
            LET p == CallAct(c)
            IN /\ p.status # "rejected"
               /\ p.status = "resolved" =>
                    IF "token" \in DOMAIN p.val
                    THEN /\ p.proc = "closed"
                         /\ ~StartsWith(p.data, SENT)
                         /\ p.val.token = p.data
                    ELSE /\ p.val.kind \in {"SessionError", "QueryError", "TypeError",
                                           "SpawnError"}
                         /\ p.val.kind # "SpawnError" => StartsWith(p.data, SENT)

\* C20's case: one getSessionToken call resolved with the error of an error
\* envelope, another with the error of a spawn failure.
C20_Witness ==
    \E c1, c2 \in 1..Len(calls) :
        /\ calls[c1].op = "signin" /\ CallAct(c1).status = "resolved"
        /\ "kind" \in DOMAIN CallAct(c1).val /\ CallAct(c1).val.kind = "SessionError"
        /\ calls[c2].op = "signin" /\ CallAct(c2).status = "resolved"
        /\ "kind" \in DOMAIN CallAct(c2).val /\ CallAct(c2).val.kind = "SpawnError"

====
